---------------------------- MODULE Spec2Model ----------------------------
(***************************************************************************)
(* Model of helpers.py: the gamma grid search find_gamma_parameters and    *)
(* the lookup find_nearest_greater, run by a caller that issues one call   *)
(* at a time and either keeps the list the previous grid search returned   *)
(* until the next one returns, or drops every list at once.                *)
(*                                                                         *)
(* Numbers are fixed point.  Shape values, means in years and step sizes   *)
(* are whole grid units; means in days are hundredths of a day; densities, *)
(* p_target and tolerance are in units of 1e-7; the standard gamma density *)
(* at its own quantile is tabulated in units of 1e-6; q_target is a        *)
(* percentage.  Grid arithmetic is exact (no floating-point rounding).     *)
(***************************************************************************)
EXTENDS Integers, Sequences, FiniteSets, TLC

\* ------------------------------------------------------------------ bounds
MaxAlpha == 3
MaxTau == 2
MaxStep == 2
MaxLen == 3
MaxVal == 3

\* 365.25 days per year, in hundredths of a day
DaysPerYear == 36525

\* ------------------------------------------------------------------ inputs
PTargets == {2737}
QTargets == {90}
Tolerances == {0, 1000, 1618}
StepSizes == 1..MaxStep
AlphaRanges == (0..MaxAlpha) \X (0..MaxAlpha)
TauBarRanges == (1..MaxTau) \X (1..MaxTau)

RECURSIVE SeqsUpTo(_, _)
SeqsUpTo(S, n) ==
    IF n = 0 THEN {<<>>}
    ELSE LET shorter == SeqsUpTo(S, n - 1)
         IN  shorter \cup {Append(s, x) : s \in {t \in shorter : Len(t) = n - 1}, x \in S}

Arrays == SeqsUpTo(0..MaxVal, MaxLen) \cup {<<1, 4, 7, 4>>}
Values == 0..MaxVal

\* ------------------------------------------------------------------ numpy
Abs(x) == IF x < 0 THEN -x ELSE x

CeilDiv(n, d) == -((-n) \div d)

\* len(np.arange(start, stop, step)) for step > 0
ArangeLen(start, stop, step) ==
    IF stop > start THEN CeilDiv(stop - start, step) ELSE 0

\* np.arange(start, stop, step)
Arange(start, stop, step) ==
    [k \in 1..ArangeLen(start, stop, step) |-> start + (k - 1) * step]

\* np.arange(alpha_range[0], alpha_range[1] + step_size, step_size)
AlphaGridNoExtend(range, step) == Arange(range[1], range[2], step)
AlphaGrid(range, step) == Arange(range[1], range[2] + step, step)

\* np.arange(tau_bar_range[0], tau_bar_range[1] + step_size, step_size) * 365.25
TauGrid(range, step) ==
    LET years == Arange(range[1], range[2] + step, step)
    IN  [k \in 1..Len(years) |-> years[k] * DaysPerYear]

\* x / y on numpy scalars: division by zero gives inf or nan, never raises
DividePython(x, y) == [raised |-> y = 0, finite |-> y # 0, num |-> x, den |-> y]
Divide(x, y) == [raised |-> FALSE, finite |-> y # 0, num |-> x, den |-> y]

\* pdf of the standard gamma distribution at its own q-quantile, by shape
StdPdfAtQuantile(q, a) ==
    LET row == IF q = 50
               THEN <<500000, 313318, 246594, 209808, 185714,
                      168374, 155129, 144586, 135936, 128673>>
               ELSE <<100000, 79549, 69138, 62360, 57436,
                      53626, 50551, 47995, 45823, 43944>>
    IN  row[a]

\* gamma.pdf(gamma.ppf(q, a, scale), a, scale): nan outside a > 0, scale > 0
PdfAtQuantile(q, a, scale) ==
    IF a > 0 /\ scale.finite /\ scale.num > 0 /\ scale.den > 0
    THEN [finite |-> TRUE,
          v |-> (StdPdfAtQuantile(q, a) * scale.den * 1000) \div scale.num]
    ELSE [finite |-> FALSE, v |-> 0]

\* np.abs(pdf_value - p_target) <= tolerance; comparisons with nan are False
WithinStrict(pdf, p, tol) == pdf.finite /\ Abs(pdf.v - p) < tol
WithinFlipped(pdf, p, tol) == pdf.finite /\ Abs(pdf.v - p) >= tol
Within(pdf, p, tol) == pdf.finite /\ Abs(pdf.v - p) <= tol

\* matching_params.append((alpha, tau_bar))
ListPrepend(list, pair) == <<pair>> \o list
ListAppend(list, pair) == Append(list, pair)


\* --------------------------------------------- find_gamma_parameters, pure
RECURSIVE InnerLoop(_, _, _, _, _, _, _)
InnerLoop(p, q, tol, alpha, taus, j, acc) ==
    IF j > Len(taus) THEN acc
    ELSE LET pdf == PdfAtQuantile(q, alpha, Divide(taus[j], alpha))
         IN  InnerLoop(p, q, tol, alpha, taus, j + 1,
                       IF Within(pdf, p, tol)
                       THEN ListAppend(acc, <<alpha, taus[j]>>)
                       ELSE acc)

RECURSIVE OuterLoop(_, _, _, _, _, _, _)
OuterLoop(p, q, tol, alphas, taus, i, acc) ==
    IF i > Len(alphas) THEN acc
    ELSE OuterLoop(p, q, tol, alphas, taus, i + 1,
                   InnerLoop(p, q, tol, alphas[i], taus, 1, acc))

\* the list find_gamma_parameters returns, as a function of its arguments
find_gamma_parameters(p, q, ar, tr, tol, step) ==
    OuterLoop(p, q, tol, AlphaGrid(ar, step), TauGrid(tr, step), 1, <<>>)

\* ----------------------------------------------------- find_nearest_greater
\* array[array > value]
GreaterValuesOrEqual(arr, v) == SelectSeq(arr, LAMBDA x : x >= v)
GreaterValues(arr, v) == SelectSeq(arr, LAMBDA x : x > v)

\* greater_values.min()
ArrayMax(arr) == CHOOSE m \in {arr[k] : k \in 1..Len(arr)} :
                     \A k \in 1..Len(arr) : arr[k] <= m
ArrayMin(arr) == CHOOSE m \in {arr[k] : k \in 1..Len(arr)} :
                     \A k \in 1..Len(arr) : m <= arr[k]

\* np.where(array == nearest_value)[0][0], a 0-based index
LastIndexOf(arr, v) ==
    (CHOOSE k \in 1..Len(arr) :
        arr[k] = v /\ \A l \in (k + 1)..Len(arr) : arr[l] # v) - 1
FirstIndexOf(arr, v) ==
    (CHOOSE k \in 1..Len(arr) :
        arr[k] = v /\ \A l \in 1..(k - 1) : arr[l] # v) - 1

NoOutcome == [kind |-> "none", idx |-> 0]

find_nearest_greater(arr, v) ==
    LET greater_values == GreaterValues(arr, v)
    IN  IF Len(greater_values) = 0
        THEN [kind |-> "ValueError", idx |-> 0]
        ELSE [kind |-> "return", idx |-> FirstIndexOf(arr, ArrayMin(greater_values))]

\* ------------------------------------------------------------------- heap
NoRef == 0

FreshId(h) == CHOOSE id \in 1..(Cardinality(DOMAIN h) + 1) : id \notin DOMAIN h

\* matching_params = []: a new empty list object
NewListShared(h) ==
    IF DOMAIN h = {}
    THEN [heap |-> [id \in {1} |-> <<>>], ref |-> 1]
    ELSE [heap |-> h, ref |-> CHOOSE id \in DOMAIN h : TRUE]
NewList(h) ==
    [heap |-> [id \in DOMAIN h \cup {FreshId(h)} |->
                  IF id \in DOMAIN h THEN h[id] ELSE <<>>],
     ref |-> FreshId(h)]

\* ------------------------------------------------------------------ state
VARIABLES
    pc,               \* where the caller or the running call is
    p_target, q_target, alpha_range, tau_bar_range, tolerance, step_size,
    alphas, i,        \* outer loop: the shape grid and the position in it
    taus, j,          \* inner loop: the mean grid (days) and the position in it
    matching_params,  \* reference to the list being filled
    evals,            \* density evaluations of the running call
    heap,             \* list objects: reference -> contents
    held,             \* reference to the list the previous call returned
    keeps,            \* whether the caller keeps the lists it is returned
    array, value,     \* arguments of find_nearest_greater
    outcome           \* what find_nearest_greater did

args == <<p_target, q_target, alpha_range, tau_bar_range, tolerance, step_size>>
locals == <<alphas, i, taus, j, matching_params, evals>>
nearest == <<array, value, outcome>>
vars == <<pc, args, locals, heap, held, keeps, nearest>>

NoArgs ==
    /\ p_target' = 0 /\ q_target' = 0 /\ alpha_range' = <<0, 0>>
    /\ tau_bar_range' = <<0, 0>> /\ tolerance' = 0 /\ step_size' = 0

NoLocals ==
    /\ alphas' = <<>> /\ i' = 0 /\ taus' = <<>> /\ j' = 0
    /\ matching_params' = NoRef /\ evals' = 0

InitCall ==
    /\ pc = "idle"
    /\ p_target = 0 /\ q_target = 0 /\ alpha_range = <<0, 0>>
    /\ tau_bar_range = <<0, 0>> /\ tolerance = 0 /\ step_size = 0
    /\ alphas = <<>> /\ i = 0 /\ taus = <<>> /\ j = 0
    /\ matching_params = NoRef /\ evals = 0
    /\ heap = [id \in {} |-> <<>>]
    /\ held = NoRef
    /\ array = <<>> /\ value = 0 /\ outcome = NoOutcome

Init == InitCall /\ keeps \in BOOLEAN

\* a caller that uses each returned list at once and drops it
InitDrop == InitCall /\ keeps = FALSE

\* the call, line 58, and the evaluation of the outer range, line 60
Call ==
    /\ pc = "idle"
    /\ \E p \in PTargets, q \in QTargets, ar \in AlphaRanges,
          tr \in TauBarRanges, tol \in Tolerances, step \in StepSizes :
          /\ p_target' = p /\ q_target' = q /\ alpha_range' = ar
          /\ tau_bar_range' = tr /\ tolerance' = tol /\ step_size' = step
          /\ alphas' = AlphaGrid(ar, step)
    /\ LET new == NewList(heap)
       IN  heap' = new.heap /\ matching_params' = new.ref
    /\ i' = 1 /\ taus' = <<>> /\ j' = 0 /\ evals' = 0
    /\ pc' = "outer"
    /\ UNCHANGED <<held, keeps, nearest>>

\* the head of the outer loop, line 60, and the inner range, line 61
OuterStep ==
    /\ pc = "outer"
    /\ IF i <= Len(alphas)
       THEN /\ taus' = TauGrid(tau_bar_range, step_size)
            /\ j' = 1
            /\ pc' = "inner"
       ELSE /\ pc' = "ret"
            /\ UNCHANGED <<taus, j>>
    /\ UNCHANGED <<args, alphas, i, matching_params, evals, heap, held, keeps, nearest>>

\* the head and the body of the inner loop, lines 61-70
InnerStep ==
    /\ pc = "inner"
    /\ IF j <= Len(taus)
       THEN LET alpha == alphas[i]
                tau_bar == taus[j]
                scale == Divide(tau_bar, alpha)
                pdf_value == PdfAtQuantile(q_target, alpha, scale)
            IN  IF scale.raised
                THEN /\ pc' = "raised"
                     /\ UNCHANGED <<i, j, evals, heap>>
                ELSE /\ evals' = evals + 1
                     /\ heap' = IF Within(pdf_value, p_target, tolerance)
                                THEN [heap EXCEPT ![matching_params] =
                                         ListAppend(@, <<alpha, tau_bar>>)]
                                ELSE heap
                     /\ j' = j + 1
                     /\ UNCHANGED <<pc, i>>
       ELSE /\ i' = i + 1
            /\ pc' = "outer"
            /\ UNCHANGED <<j, evals, heap>>
    /\ UNCHANGED <<args, alphas, taus, matching_params, held, keeps, nearest>>

\* return matching_params, line 72: the caller drops the list it held
\* before and keeps the new one, or drops that too
Return ==
    /\ pc = "ret"
    /\ held' = IF keeps THEN matching_params ELSE NoRef
    /\ heap' = [id \in (IF keeps THEN {matching_params} ELSE {}) |-> heap[id]]
    /\ NoArgs /\ NoLocals
    /\ pc' = "idle"
    /\ UNCHANGED <<keeps, nearest>>

\* a call of find_nearest_greater(array, value)
NearestCall ==
    /\ pc = "idle"
    /\ \E arr \in Arrays, v \in Values : array' = arr /\ value' = v
    /\ outcome' = NoOutcome
    /\ pc' = "nearest"
    /\ UNCHANGED <<args, locals, heap, held, keeps>>

\* its body, lines 96-105
NearestRun ==
    /\ pc = "nearest"
    /\ outcome' = find_nearest_greater(array, value)
    /\ pc' = "nearest_ret"
    /\ UNCHANGED <<args, locals, heap, held, keeps, array, value>>

\* the caller takes the index or the exception
NearestReturn ==
    /\ pc = "nearest_ret"
    /\ array' = <<>> /\ value' = 0 /\ outcome' = NoOutcome
    /\ pc' = "idle"
    /\ UNCHANGED <<args, locals, heap, held, keeps>>

Next ==
    \/ Call
    \/ OuterStep
    \/ InnerStep
    \/ Return
    \/ NearestCall
    \/ NearestRun
    \/ NearestReturn

Spec == Init /\ [][Next]_vars

\* a started call is run to its end
FairSpec ==
    /\ InitDrop /\ [][Next]_vars
    /\ WF_vars(OuterStep) /\ WF_vars(InnerStep) /\ WF_vars(NearestRun)

TypeOK ==
    /\ pc \in {"idle", "outer", "inner", "ret", "raised", "nearest", "nearest_ret"}
    /\ held \in {NoRef} \cup DOMAIN heap
    /\ matching_params \in {NoRef} \cup DOMAIN heap


\* ---------------------------------------------------------------- helpers
InCall == pc \in {"outer", "inner", "ret"}

Elems(seq) == {seq[k] : k \in 1..Len(seq)}

\* the list the running call has built
Out == heap[matching_params]

\* the pairs the two ranges of the running call produce
ScannedPairs ==
    Elems(AlphaGrid(alpha_range, step_size)) \X Elems(TauGrid(tau_bar_range, step_size))

\* the criterion of the documentation, for a pair (shape, mean in days)
DensityAt(pair) == PdfAtQuantile(q_target, pair[1], Divide(pair[2], pair[1]))
Matching(pair) ==
    DensityAt(pair).finite /\ Abs(DensityAt(pair).v - p_target) <= tolerance

LexLess(a, b) == a[1] < b[1] \/ (a[1] = b[1] /\ a[2] < b[2])

RECURSIVE IsSubseq(_, _)
IsSubseq(s, t) ==
    IF s = <<>> THEN TRUE
    ELSE IF t = <<>> THEN FALSE
    ELSE IF Head(s) = Head(t) THEN IsSubseq(Tail(s), Tail(t))
    ELSE IsSubseq(s, Tail(t))

RECURSIVE Concat(_)
Concat(seqs) == IF seqs = <<>> THEN <<>> ELSE Head(seqs) \o Concat(Tail(seqs))

\* the result for the tolerance t, the other arguments as in the running call
ResultFor(t) ==
    find_gamma_parameters(p_target, q_target, alpha_range, tau_bar_range, t, step_size)

\* the result for the single shape value a
ResultForShape(a) ==
    find_gamma_parameters(p_target, q_target, <<a, a>>, tau_bar_range, tolerance, step_size)

SomeGreater == \E k \in 1..Len(array) : array[k] > value

\* ----------------------------------------------------------------- claims

\* C1: when some element of the array is strictly greater than value,
\* find_nearest_greater returns the 0-based index of the smallest such
\* element, and of its first occurrence; [1,4,7,4] with value 3 gives 1.
C1_NearestIsFirstMinimum ==
    (pc = "nearest_ret" /\ SomeGreater) =>
        /\ outcome.kind = "return"
        /\ outcome.idx + 1 \in 1..Len(array)
        /\ array[outcome.idx + 1] > value
        /\ \A k \in 1..Len(array) :
              array[k] > value => array[outcome.idx + 1] <= array[k]
        /\ \A k \in 1..outcome.idx : array[k] # array[outcome.idx + 1]
        /\ (array = <<1, 4, 7, 4>> /\ value = 3) => outcome.idx = 1

C1_Witness ==
    /\ pc = "nearest_ret"
    /\ array = <<1, 4, 7, 4>> /\ value = 3
    /\ outcome = [kind |-> "return", idx |-> 1]

\* C2: when no element of the array is strictly greater than value (the
\* empty array and a maximum equal to value included), find_nearest_greater
\* raises ValueError and returns no index.
C2_NoGreaterRaises ==
    (pc = "nearest_ret" /\ ~SomeGreater) => outcome.kind = "ValueError"

C2_Witness ==
    /\ pc = "nearest_ret"
    /\ Len(array) >= 2
    /\ ArrayMax(array) = value
    /\ outcome.kind = "ValueError"

\* C3: the returned list holds exactly the scanned grid pairs whose density
\* at the quantile is within tolerance of p_target, equality included, each
\* once.
C3_OutputIsMatchingPairs ==
    pc = "ret" =>
        /\ Elems(Out) = {g \in ScannedPairs : Matching(g)}
        /\ Len(Out) = Cardinality({g \in ScannedPairs : Matching(g)})

C3_Witness ==
    /\ pc = "ret"
    /\ Len(Out) >= 2
    /\ \E g \in ScannedPairs : ~Matching(g)
    /\ tolerance > 0
    /\ \E g \in Elems(Out) : Abs(DensityAt(g).v - p_target) = tolerance

\* C4: with an inverted shape range or an inverted mean range the loop body
\* is never entered and the result is empty.
C4_InvertedRangeIsEmpty ==
    (InCall /\ (alpha_range[2] < alpha_range[1] \/ tau_bar_range[2] < tau_bar_range[1])) =>
        /\ pc # "inner"
        /\ evals = 0
        /\ Out = <<>>

\* C5: each dimension scans exactly min, min + step_size, ... up to max
\* inclusive: nothing above the upper bound is scanned or returned.
C5_ScanStaysWithinRange ==
    /\ InCall =>
          /\ Elems(alphas) =
                {a \in 0..(MaxAlpha + MaxStep) :
                    /\ a >= alpha_range[1] /\ a <= alpha_range[2]
                    /\ (a - alpha_range[1]) % step_size = 0}
          /\ \A k \in 1..Len(Out) : Out[k][1] <= alpha_range[2]
    /\ pc = "inner" =>
          Elems(taus) =
              {y * DaysPerYear : y \in
                  {t \in 0..(MaxTau + MaxStep) :
                      /\ t >= tau_bar_range[1] /\ t <= tau_bar_range[2]
                      /\ (t - tau_bar_range[1]) % step_size = 0}}

\* C6: the list is in iteration order: strictly ascending by shape and,
\* for equal shapes, by mean.
C6_OutputIsLexSorted ==
    InCall => \A k, l \in 1..Len(Out) : k < l => LexLess(Out[k], Out[l])

C6_Witness ==
    /\ pc = "ret"
    /\ \E k, l \in 1..Len(Out) : Out[k][1] = Out[l][1] /\ Out[k][2] < Out[l][2]
    /\ \E k, l \in 1..Len(Out) : Out[k][1] < Out[l][1] /\ Out[k][2] > Out[l][2]

\* C7: the result for a smaller tolerance is a subsequence of, and so never
\* longer than, the result for a larger one, the other arguments being equal.
C7_ToleranceMonotone ==
    pc = "ret" =>
        \A t \in Tolerances :
            /\ t <= tolerance =>
                  IsSubseq(ResultFor(t), Out) /\ Len(ResultFor(t)) <= Len(Out)
            /\ t >= tolerance =>
                  IsSubseq(Out, ResultFor(t)) /\ Len(Out) <= Len(ResultFor(t))

C7_Witness ==
    /\ pc = "ret"
    /\ \E t1, t2 \in Tolerances :
          /\ t1 < tolerance /\ tolerance < t2
          /\ 0 < Len(ResultFor(t1))
          /\ Len(ResultFor(t1)) < Len(Out)
          /\ Len(Out) < Len(ResultFor(t2))

\* C8: every started grid search reaches its return statement, having
\* evaluated the density once per grid pair, and never raises.
C8_TerminatesWithoutError ==
    /\ (pc = "outer" /\ i = 1) ~> (pc = "ret")
    /\ [](pc = "ret" =>
            evals = Len(AlphaGrid(alpha_range, step_size))
                    * Len(TauGrid(tau_bar_range, step_size)))
    /\ [](pc # "raised")

C8_Witness ==
    /\ pc = "ret"
    /\ evals >= 4
    /\ 0 \in Elems(alphas)

C10_CallsAreIndependent ==
    /\ [][/\ pc \in {"outer", "inner"} => args' = args
          /\ pc = "nearest" => (array' = array /\ value' = value)
          /\ (pc = "idle" /\ pc' = "outer") =>
                /\ matching_params' \notin DOMAIN heap
                /\ heap'[matching_params'] = <<>>
          /\ (held # NoRef /\ pc' # "idle") =>
                (held' = held /\ heap'[held] = heap[held])]_vars
    /\ [](pc = "ret" =>
            Out = find_gamma_parameters(p_target, q_target, alpha_range,
                                        tau_bar_range, tolerance, step_size))
    /\ [](pc = "nearest_ret" => outcome = find_nearest_greater(array, value))

C10_Witness ==
    /\ pc = "ret"
    /\ held # NoRef /\ held # matching_params
    /\ heap[held] # <<>>
    /\ Out # <<>>
    /\ Out # heap[held]

=============================================================================
